---- MODULE Spec2Model ----
(***************************************************************************)
(* Model of clinica's StatisticsVolume pipeline                            *)
(* (clinica/pipelines/statistics_volume/statistics_volume_pipeline.py):    *)
(* parameter resolution, input selection, construction of the node graph,  *)
(* the rewrite rules handed to the sink, and the execution of the built    *)
(* graph by an engine that starts a node only after its producers are done.*)
(*                                                                         *)
(* Python values are tagged records, so that None, strings, numbers and    *)
(* enumeration members stay distinguishable (truthiness, `.value`).        *)
(* Paths and regular expressions work on sequences of tokens: "/" and "."  *)
(* and digits are tokens of one character, names are tokens of several.    *)
(* cluster_threshold is counted in units of 1/Scale.                       *)
(***************************************************************************)
EXTENDS Integers, Sequences, FiniteSets, TLC

VARIABLES
    parameters,     \* self.parameters: a record whose DOMAIN is the keys present
    pc,             \* the last step of construction that succeeded: new,
                    \* checked, input, core, built
    err,            \* the exception that ended construction (pc stays where
                    \* it was raised) or, once built, the last node failure
    filter_calls,   \* number of calls of clinica_file_filter
    information_dict, \* the descriptor handed to clinica_file_filter
    input_files,    \* read_parameters_node.inputs.input_files
    edges,          \* connections declared so far by self.connect
    literals,       \* input ports set directly (node.inputs.port = value)
    regexp_substitutions, \* datasink.inputs.regexp_substitutions (<<>>: never set)
    status,         \* per node: idle, running, done, failed
    outputs,        \* outputs of read_output_node once it has run
    fields,         \* values received by the output node, by port
    sunk            \* per sink port: the final paths of the files written

vars == <<parameters, pc, err, filter_calls, information_dict, input_files, edges,
          literals, regexp_substitutions, status, outputs, fields, sunk>>

----------------------------------------------------------------------------
(* Bounds of the model *)

\* cluster_threshold ranges over the values within Excess units of 0 and of 1
Excess == 1
\* read_output_node returns 0..MaxMaps statistical maps
MaxMaps == 2
\* ... and 0..MaxOther other files
MaxOther == 3

(* Units *)
\* the value 1 of cluster_threshold, in units of 0.001 (the default)
Scale == 1000

----------------------------------------------------------------------------
(* Python values *)

None == [py |-> "NoneType"]
PyStr(s) == [py |-> "str", s |-> s]
PyInt(i) == [py |-> "int", i |-> i]
PyBool(b) == [py |-> "bool", b |-> b]
PyEnum(cls, v) == [py |-> cls, value |-> v]

\* bool(v)
Truthy(v) ==
    CASE v.py = "NoneType" -> FALSE
      [] v.py = "str" -> v.s # ""
      [] v.py = "int" -> v.i # 0
      [] v.py = "bool" -> v.b
      [] OTHER -> TRUE

\* whether v.value exists (otherwise AttributeError)
HasValueAttr(v) == v.py \in {"Tracer", "SUVRReferenceRegion"}

\* dict.setdefault(key, default)
SetDefault(p, key, default) ==
    IF key \in DOMAIN p THEN p ELSE p @@ (key :> default)

\* dict[key] = value
SetItem(p, key, value) ==
    [k \in DOMAIN p \cup {key} |-> IF k = key THEN value ELSE p[k]]

NoError == [type |-> "", msg |-> "", given |-> <<>>]
Raise(type, msg, given) == [type |-> type, msg |-> msg, given |-> given]

----------------------------------------------------------------------------
(* clinica.utils.pet *)

TracerValues == {"18FFDG", "18FAV45"}
SUVRValues == {"pons", "cerebellumPons", "pons2", "cerebellumPons2"}

\* Tracer(label): the member of that value, or a ValueError
Tracer(v) ==
    IF v.py = "Tracer" THEN [ok |-> TRUE, val |-> v]
    ELSE IF v.py = "str" /\ v.s \in TracerValues
         THEN [ok |-> TRUE, val |-> PyEnum("Tracer", v.s)]
         ELSE [ok |-> FALSE, val |-> v]

SUVRReferenceRegion(v) ==
    IF v.py = "SUVRReferenceRegion" THEN [ok |-> TRUE, val |-> v]
    ELSE IF v.py = "str" /\ v.s \in SUVRValues
         THEN [ok |-> TRUE, val |-> PyEnum("SUVRReferenceRegion", v.s)]
         ELSE [ok |-> FALSE, val |-> v]

----------------------------------------------------------------------------
(* StatisticsVolume._check_pipeline_parameters *)

MsgMissingInput ==
    "Missing compulsory orig_input_data_volume key in pipeline parameter."
MsgMissingContrast == "Missing compulsory contrast key in pipeline parameter."
MsgThreshold == "Cluster threshold should be between 0 and 1 (given value: %s)."
MsgNotAMember == "%s is not a valid member of the enumeration"

\* cluster_threshold = 0.001
DefaultClusterThreshold == 1
\* full_width_at_half_maximum = 8
DefaultFwhm == 8

ThresholdOutOfRange_Strict(t) == t <= 0 \/ t >= Scale
\* lines 48-51: cluster_threshold < 0 or cluster_threshold > 1
ThresholdOutOfRange(t) == t < 0 \/ t > Scale

CompulsoryError_NoContrastCheck(p) ==
    IF "orig_input_data_volume" \notin DOMAIN p
    THEN Raise("KeyError", MsgMissingInput, <<>>)
    ELSE NoError
\* lines 18-24: the compulsory keys, in the order they are tested
CompulsoryError(p) ==
    IF "orig_input_data_volume" \notin DOMAIN p
    THEN Raise("KeyError", MsgMissingInput, <<>>)
    ELSE IF "contrast" \notin DOMAIN p
         THEN Raise("KeyError", MsgMissingContrast, <<>>)
         ELSE NoError

\* lines 26-28
WithGeneralDefaults(p) ==
    SetDefault(SetDefault(p, "group_label_dartel", PyStr("*")),
               "full_width_at_half_maximum", PyInt(DefaultFwhm))

\* lines 39-46
WithLateDefaults(p) ==
    SetDefault(
      SetDefault(
        SetDefault(
          SetDefault(p, "use_pvc_data", PyBool(FALSE)),
          "measure_label", None),
        "custom_file", None),
      "cluster_threshold", PyInt(DefaultClusterThreshold))

\* The whole method: the bag as it is left, and the exception raised (if any).
CheckParameters(p) ==
    IF CompulsoryError(p) # NoError
    THEN [parameters |-> p, err |-> CompulsoryError(p)]
    ELSE
    LET p1 == SetDefault(WithGeneralDefaults(p), "acq_label", None)
        acq == Tracer(p1["acq_label"])
    IN  IF Truthy(p1["acq_label"]) /\ ~acq.ok
        THEN [parameters |-> p1,
              err |-> Raise("ValueError", MsgNotAMember, <<p1["acq_label"]>>)]
        ELSE
        LET p2 == IF Truthy(p1["acq_label"])
                  THEN SetItem(p1, "acq_label", acq.val) ELSE p1
            p3 == SetDefault(p2, "suvr_reference_region", None)
            ref == SUVRReferenceRegion(p3["suvr_reference_region"])
        IN  IF Truthy(p3["suvr_reference_region"]) /\ ~ref.ok
            THEN [parameters |-> p3,
                  err |-> Raise("ValueError", MsgNotAMember,
                                <<p3["suvr_reference_region"]>>)]
            ELSE
            LET p4 == IF Truthy(p3["suvr_reference_region"])
                      THEN SetItem(p3, "suvr_reference_region", ref.val)
                      ELSE p3
                p5 == WithLateDefaults(p4)
            IN  IF ThresholdOutOfRange(p5["cluster_threshold"].i)
                THEN [parameters |-> p5,
                      err |-> Raise("ClinicaException", MsgThreshold,
                                    <<p5["cluster_threshold"]>>)]
                ELSE [parameters |-> p5, err |-> NoError]

----------------------------------------------------------------------------
(* StatisticsVolume._build_input_node: the selection of the input files *)

MsgMissingValues ==
    "Missing value(s) in parameters from pet-volume pipeline. Given values:"
MsgNoValueAttr == "object has no attribute 'value'"
MsgNoCustomFile ==
    "Custom pipeline was selected but no 'custom_file' was specified."
MsgUnknownInput == "Input data %s unknown."

NoInfo == [kind |-> "none"]

\* lines 109-114: the f-string reads acq_label.value, then
\* suvr_reference_region.value, before ValueError is constructed
MissingValuesError(p) ==
    IF ~HasValueAttr(p["acq_label"])
    THEN Raise("AttributeError", MsgNoValueAttr, <<p["acq_label"]>>)
    ELSE IF ~HasValueAttr(p["suvr_reference_region"])
         THEN Raise("AttributeError", MsgNoValueAttr,
                    <<p["suvr_reference_region"]>>)
         ELSE Raise("ValueError", MsgMissingValues,
                    <<p["acq_label"], p["suvr_reference_region"],
                      p["use_pvc_data"]>>)

\* lines 104-124
PetVolume(p) ==
    IF ~(Truthy(p["acq_label"]) /\ Truthy(p["suvr_reference_region"]))
    THEN [parameters |-> p, err |-> MissingValuesError(p), info |-> NoInfo]
    ELSE [parameters |->
              SetItem(p, "measure_label", PyStr(p["acq_label"].value)),
          err |-> NoError,
          info |-> [kind |-> "pet_volume_normalized_suvr_pet",
                    acq_label |-> p["acq_label"],
                    group_label |-> p["group_label_dartel"],
                    suvr_reference_region |-> p["suvr_reference_region"],
                    use_brainmasked_image |-> PyBool(TRUE),
                    use_pvc_data |-> p["use_pvc_data"],
                    fwhm |-> p["full_width_at_half_maximum"]]]

\* lines 125-132
T1Volume(p) ==
    [parameters |-> SetItem(p, "measure_label", PyStr("graymatter")),
     err |-> NoError,
     info |-> [kind |-> "t1_volume_template_tpm_in_mni",
               group_label |-> p["group_label_dartel"],
               tissue_number |-> PyInt(1),
               modulation |-> PyBool(TRUE),
               fwhm |-> p["full_width_at_half_maximum"]]]

CustomPipeline_KeepFwhm(p) ==
    IF ~Truthy(p["custom_file"])
    THEN [parameters |-> p,
          err |-> Raise("ClinicaException", MsgNoCustomFile, <<>>),
          info |-> NoInfo]
    ELSE [parameters |-> p,
          err |-> NoError,
          info |-> [kind |-> "dict",
                    pattern |-> p["custom_file"],
                    description |-> PyStr("custom file provided by user")]]
\* lines 134-144
CustomPipeline(p) ==
    IF ~Truthy(p["custom_file"])
    THEN [parameters |-> p,
          err |-> Raise("ClinicaException", MsgNoCustomFile, <<>>),
          info |-> NoInfo]
    ELSE [parameters |-> SetItem(p, "full_width_at_half_maximum", None),
          err |-> NoError,
          info |-> [kind |-> "dict",
                    pattern |-> p["custom_file"],
                    description |-> PyStr("custom file provided by user")]]

\* lines 104-148: the branch on orig_input_data_volume
SelectInput(p) ==
    LET src == p["orig_input_data_volume"] IN
    IF src = PyStr("pet-volume") THEN PetVolume(p)
    ELSE IF src = PyStr("t1-volume") THEN T1Volume(p)
    ELSE IF src = PyStr("custom-pipeline") THEN CustomPipeline(p)
    ELSE [parameters |-> p,
          err |-> Raise("ValueError", MsgUnknownInput, <<src>>),
          info |-> NoInfo]

\* clinica_file_filter(subjects, sessions, caps_directory, information_dict):
\* the files matched for the subjects and sessions kept
MatchedFiles == << <<"sub-01_ses-M00", ".", "nii", ".", "gz">>,
                   <<"sub-02_ses-M00", ".", "nii", ".", "gz">> >>

----------------------------------------------------------------------------
(* The parameter bags a caller may hand to the constructor *)

Absent == <<>>
Given(v) == <<v>>
\* the entry of the bag for `key`: none when the caller gave none
Entry(key, choice) == IF choice = Absent THEN <<>> ELSE (key :> choice[1])

ThresholdChoices ==
    ((0 - Excess) .. Excess) \cup ((Scale - Excess) .. (Scale + Excess))

InputChoices == {Absent, Given(PyStr("pet-volume")), Given(PyStr("t1-volume")),
                 Given(PyStr("custom-pipeline")), Given(PyStr("dwi-volume"))}
ContrastChoices == {Absent, Given(PyStr("group"))}
AcqChoices == {Absent, Given(PyStr("18FFDG")), Given(PyStr("11CXYZ"))}
SuvrChoices == {Absent, Given(PyStr("pons")), Given(PyStr("thalamus"))}
CustomFileChoices == {Absent, Given(PyStr("")), Given(PyStr("*_pet.nii.gz"))}
FwhmChoices == {Absent, Given(PyInt(6))}
ClusterChoices == {Absent} \cup {Given(PyInt(t)) : t \in ThresholdChoices}

RawBags ==
    { Entry("orig_input_data_volume", src) @@ Entry("contrast", con)
      @@ Entry("acq_label", acq) @@ Entry("suvr_reference_region", ref)
      @@ Entry("custom_file", cf) @@ Entry("full_width_at_half_maximum", fw)
      @@ Entry("cluster_threshold", ct) :
        src \in InputChoices, con \in ContrastChoices, acq \in AcqChoices,
        ref \in SuvrChoices, cf \in CustomFileChoices, fw \in FwhmChoices,
        ct \in ClusterChoices }

----------------------------------------------------------------------------
(* The nodes and the connections declared by self.connect *)

\* (source, port) -> (destination, port)
Edge(from, port, to, inport) ==
    [from |-> from, port |-> port, idx |-> <<>>, to |-> to, inport |-> inport]
\* (source, (port, _getter, idx)) -> (destination, port)
Spliced(from, port, idx, to, inport) ==
    [from |-> from, port |-> port, idx |-> <<idx>>, to |-> to,
     inport |-> inport]

\* _build_input_node, lines 170-172
InputEdges ==
    { Edge("read_parameters_node", "input_files", "input_node", "input_files") }

\* lines 441-444: what model_creation waits for
PreparationEdges ==
    { Edge("input_node", "input_files", "unzip_node", "in_file"),
      Edge("unzip_node", "output_files", "model_creation", "file_list"),
      Edge("get_groups", "idx_group1", "model_creation", "idx_group1"),
      Edge("get_groups", "idx_group2", "model_creation", "idx_group2") }

HandleEdges_NoLastHandle ==
    { Edge("model_creation", "script_file", "run_spm_model_creation", "m_file"),
      Edge("run_spm_model_creation", "spm_mat", "model_estimation", "mat_file"),
      Edge("model_estimation", "script_file", "run_spm_model_estimation",
           "m_file"),
      Edge("get_groups", "class_names", "model_contrast", "class_names"),
      Edge("run_spm_model_estimation", "spm_mat", "model_contrast", "mat_file"),
      Edge("model_creation", "covariates", "model_contrast", "covariates"),
      Edge("model_contrast", "script_file", "run_spm_model_contrast", "m_file"),
      Edge("run_spm_model_contrast", "spm_mat", "model_result_no_correction",
           "mat_file"),
      Edge("model_result_no_correction", "script_file",
           "run_spm_model_result_no_correction", "m_file") }
HandleEdges_EstimationFromScript ==
    { Edge("model_creation", "script_file", "run_spm_model_creation", "m_file"),
      Edge("model_creation", "script_file", "model_estimation", "mat_file"),
      Edge("model_estimation", "script_file", "run_spm_model_estimation",
           "m_file"),
      Edge("get_groups", "class_names", "model_contrast", "class_names"),
      Edge("run_spm_model_estimation", "spm_mat", "model_contrast", "mat_file"),
      Edge("model_creation", "covariates", "model_contrast", "covariates"),
      Edge("model_contrast", "script_file", "run_spm_model_contrast", "m_file"),
      Edge("run_spm_model_contrast", "spm_mat", "model_result_no_correction",
           "mat_file"),
      Edge("model_result_no_correction", "script_file",
           "run_spm_model_result_no_correction", "m_file"),
      Edge("run_spm_model_result_no_correction", "spm_mat", "read_output_node",
           "spm_mat") }
\* lines 445-454: scripts to their runs, and each run's handle to the next
\* script-writing stage (model_contrast also takes class_names and covariates)
HandleEdges ==
    { Edge("model_creation", "script_file", "run_spm_model_creation", "m_file"),
      Edge("run_spm_model_creation", "spm_mat", "model_estimation", "mat_file"),
      Edge("model_estimation", "script_file", "run_spm_model_estimation",
           "m_file"),
      Edge("get_groups", "class_names", "model_contrast", "class_names"),
      Edge("run_spm_model_estimation", "spm_mat", "model_contrast", "mat_file"),
      Edge("model_creation", "covariates", "model_contrast", "covariates"),
      Edge("model_contrast", "script_file", "run_spm_model_contrast", "m_file"),
      Edge("run_spm_model_contrast", "spm_mat", "model_result_no_correction",
           "mat_file"),
      Edge("model_result_no_correction", "script_file",
           "run_spm_model_result_no_correction", "m_file"),
      Edge("run_spm_model_result_no_correction", "spm_mat", "read_output_node",
           "spm_mat") }

\* lines 455-456
CollectionEdges ==
    { Edge("get_groups", "class_names", "read_output_node", "class_names"),
      Edge("model_creation", "covariates", "read_output_node", "covariates") }

\* lines 457-464: the outputs of read_output_node to the output node
SpliceEdges ==
    { Spliced("read_output_node", "spm_T_maps", 0, "output_node", "spmT_0001"),
      Spliced("read_output_node", "spm_T_maps", 1, "output_node", "spmT_0002"),
      Edge("read_output_node", "spm_figures", "output_node", "spm_figures"),
      Spliced("read_output_node", "other_spm_files", 0, "output_node",
              "variance_of_error"),
      Spliced("read_output_node", "other_spm_files", 1, "output_node",
              "resels_per_voxels"),
      Spliced("read_output_node", "other_spm_files", 2, "output_node", "mask"),
      Edge("read_output_node", "regression_coeff", "output_node",
           "regression_coeff"),
      Edge("read_output_node", "contrasts", "output_node", "contrasts") }

\* _build_core_nodes, lines 439-466
CoreEdges ==
    PreparationEdges \cup HandleEdges \cup CollectionEdges \cup SpliceEdges

\* _build_output_node, lines 241-264
OutputEdges ==
    { Edge("output_node", "spmT_0001", "datasink", "spm_results_analysis_1"),
      Edge("output_node", "spmT_0002", "datasink", "spm_results_analysis_2"),
      Edge("output_node", "spm_figures", "datasink", "figures"),
      Edge("output_node", "variance_of_error", "datasink", "variance_of_error"),
      Edge("output_node", "resels_per_voxels", "datasink", "resels_per_voxels"),
      Edge("output_node", "mask", "datasink", "mask"),
      Edge("output_node", "regression_coeff", "datasink", "regression_coeff"),
      Edge("output_node", "contrasts", "datasink", "contrasts") }

\* The stages created by _build_core_nodes (lines 288-431)
CoreStages ==
    { "unzip_node", "get_groups", "model_creation", "run_spm_model_creation",
      "model_estimation", "run_spm_model_estimation", "model_contrast",
      "run_spm_model_contrast", "model_result_no_correction",
      "run_spm_model_result_no_correction", "read_output_node" }

\* Every node of the workflow
Nodes == CoreStages \cup
         { "read_parameters_node", "input_node", "output_node", "datasink" }

Producers(E, n) == { e.from : e \in { x \in E : x.to = n } }

\* m is reachable from n along the edges of E in at least one step
RECURSIVE ReachFrom(_, _, _)
ReachFrom(E, frontier, seen) ==
    LET next == { e.to : e \in { x \in E : x.from \in frontier } } \ seen
    IN  IF next = {} THEN seen ELSE ReachFrom(E, next, seen \cup next)
Descendants(E, n) == ReachFrom(E, {n}, {})
Before(E, n, m) == m \in Descendants(E, n)
Acyclic(E) == \A n \in Nodes : ~Before(E, n, n)

----------------------------------------------------------------------------
(* Regular expressions over tokens: re.sub as DataSink._substitute uses it *)

\* In a pattern the token "." stands for one character, the token ".*" for
\* any run of characters and the parenthesised star for such a run captured
\* as group 1; in a replacement the token \1 stands for group 1.

OneCharTokens == {"/", ".", "0", "1", "2", "3", "4", "5", "6", "7", "8", "9"}

NoMatch == [ok |-> FALSE, end |-> 0, g |-> <<>>]

RECURSIVE Match(_, _, _, _)
RECURSIVE MatchStar(_, _, _, _, _)
\* pat[i..] matched against s from position j: whether it matches, the
\* position after the match, and group 1
Match(pat, i, s, j) ==
    IF i > Len(pat) THEN [ok |-> TRUE, end |-> j, g |-> <<>>]
    ELSE IF pat[i] \in {"(.*)", ".*"} THEN MatchStar(pat, i, s, j, Len(s))
    ELSE IF j > Len(s) THEN NoMatch
    ELSE IF pat[i] = "."
         THEN IF s[j] \in OneCharTokens THEN Match(pat, i + 1, s, j + 1)
              ELSE NoMatch
    ELSE IF pat[i] = s[j] THEN Match(pat, i + 1, s, j + 1)
    ELSE NoMatch
\* the greedy star at pat[i] taking s[j..e], then e - 1, ... down to nothing
MatchStar(pat, i, s, j, e) ==
    IF e < j - 1 THEN NoMatch
    ELSE LET r == Match(pat, i + 1, s, e + 1)
         IN  IF r.ok
             THEN [ok |-> TRUE, end |-> r.end,
                   g |-> IF pat[i] = "(.*)" THEN SubSeq(s, j, e) ELSE r.g]
             ELSE MatchStar(pat, i, s, j, e - 1)

RECURSIVE Expand(_, _)
Expand(repl, g) ==
    IF repl = <<>> THEN <<>>
    ELSE (IF Head(repl) = "\\1" THEN g ELSE <<Head(repl)>>)
         \o Expand(Tail(repl), g)

RECURSIVE SubFrom(_, _, _, _)
\* re.sub(pat, repl, s) for the part of s from position pos on
SubFrom(pat, repl, s, pos) ==
    IF pos > Len(s) THEN <<>>
    ELSE LET m == Match(pat, 1, s, pos)
         IN  IF m.ok /\ m.end > pos
             THEN Expand(repl, m.g) \o SubFrom(pat, repl, s, m.end)
             ELSE <<s[pos]>> \o SubFrom(pat, repl, s, pos + 1)
ReSub(pat, repl, s) == SubFrom(pat, repl, s, 1)

RECURSIVE Substitute(_, _)
\* every rule in turn, each applied to the result of the one before
Substitute(rules, path) ==
    IF rules = <<>> THEN path
    ELSE Substitute(Tail(rules),
                    ReSub(Head(rules).pattern, Head(rules).repl, path))

----------------------------------------------------------------------------
(* StatisticsVolume._build_output_node: the sink and its rewrite rules *)

\* str(v) and f"{v}"
PyToStr(v) ==
    CASE v.py = "NoneType" -> "None"
      [] v.py = "str" -> v.s
      [] v.py = "int" -> ToString(v.i)
      [] v.py = "bool" -> IF v.b THEN "True" ELSE "False"
      [] OTHER -> v.value

GroupId == "group-UnitTest"
GroupDirectory == <<"/", "caps", "/", "groups", "/", GroupId>>
TsvFile == <<"participants", ".", "tsv">>

\* a / b
Join(a, b) == a \o <<"/">> \o b

\* lines 181-185
BaseDir(p) ==
    Join(Join(GroupDirectory, <<"statistics_volume">>),
         <<"group_comparison_measure-", PyToStr(p["measure_label"])>>)

Rule(pattern, repl) == [pattern |-> pattern, repl |-> repl]

\* lines 193-197
RuleTStat(base) ==
    Rule(base \o <<"/", "spm_results_analysis_", ".", "/", "(.*)">>,
         base \o <<"/", "\\1">>)
\* lines 198-202
RuleContrasts(base) ==
    Rule(base \o <<"/", "contrasts", "/", "(.*)">>, base \o <<"/", "\\1">>)
RuleRPV_KeepName(base) ==
    Rule(Join(Join(base, <<"resels_per_voxels">>),
              <<"resels_per_voxel", ".", "nii">>),
         Join(base, <<"resels_per_voxel", ".", "nii">>))
\* lines 203-207
RuleRPV(base) ==
    Rule(Join(Join(base, <<"resels_per_voxels">>),
              <<"resels_per_voxel", ".", "nii">>),
         Join(base, <<GroupId, "_RPV", ".", "nii">>))
\* lines 208-212
RuleMask(base) ==
    Rule(Join(Join(base, <<"mask ">>), <<"included_voxel_mask", ".", "nii">>),
         Join(base, <<GroupId, "_mask", ".", "nii">>))
\* lines 213-217
RuleVariance(base) ==
    Rule(Join(base, <<"variance_of_error">>) \o <<"/", "(.*)">>,
         base \o <<"/", "\\1">>)
\* lines 218-222
RuleTsv(base) ==
    Rule(Join(base, <<"tsv_file">>) \o <<"/", ".*">>,
         Join(Join(base, <<"..">>), <<GroupId, "_participants", ".", "tsv">>))
\* lines 223-227
RuleFigures(base) ==
    Rule(Join(base, <<"figures">>) \o <<"/", "(.*)">>, base \o <<"/", "\\1">>)
\* lines 228-236
RuleRegression(base, p) ==
    Rule(Join(base, <<"regression_coeff">>) \o <<"/", "(.*)", ".", "nii">>,
         Join(base, <<GroupId>>) \o
         <<"_covariate-", "\\1", "_measure-", PyToStr(p["measure_label"]),
           "_fwhm-", PyToStr(p["full_width_at_half_maximum"]),
           "_regressionCoefficient", ".", "nii">>)

\* lines 191-237: the list is assigned only under
\* `if self.parameters["full_width_at_half_maximum"]`
RegexpSubstitutions(p) ==
    IF Truthy(p["full_width_at_half_maximum"])
    THEN LET base == BaseDir(p)
         IN  << RuleTStat(base), RuleContrasts(base), RuleRPV(base),
                RuleMask(base), RuleVariance(base), RuleTsv(base),
                RuleFigures(base), RuleRegression(base, p) >>
    ELSE <<>>

----------------------------------------------------------------------------
(* Values that flow to the sink *)

\* copy_and_rename_spm_output_files: the files it returns, by output
TMapFile(i) == <<"TStatistics_", ToString(i), ".", "nii">>
OtherFile(i) ==
    CASE i = 1 -> <<"variance_of_error", ".", "nii">>
      [] i = 2 -> <<"resels_per_voxel", ".", "nii">>
      [] i = 3 -> <<"included_voxel_mask", ".", "nii">>
      [] OTHER -> <<"other_", ToString(i), ".", "nii">>
CollectedOutputs(nMaps, nOther) ==
    [spm_T_maps |-> [i \in 1..nMaps |-> TMapFile(i)],
     spm_figures |-> << <<"figure_001", ".", "png">> >>,
     other_spm_files |-> [i \in 1..nOther |-> OtherFile(i)],
     regression_coeff |-> << <<"age", ".", "nii">>, <<"sex", ".", "nii">> >>,
     contrasts |-> << <<"contrast_1", ".", "nii">>,
                      <<"contrast_2", ".", "nii">> >>]
NoOutputs == [spm_T_maps |-> <<>>, spm_figures |-> <<>>,
              other_spm_files |-> <<>>, regression_coeff |-> <<>>,
              contrasts |-> <<>>]

_getter_Padded(files, idx) ==
    IF 0 <= idx /\ idx < Len(files)
    THEN [ok |-> TRUE, val |-> files[idx + 1]]
    ELSE [ok |-> TRUE, val |-> <<>>]
\* lines 284-285: files[idx], or IndexError
_getter(files, idx) ==
    IF 0 <= idx /\ idx < Len(files)
    THEN [ok |-> TRUE, val |-> files[idx + 1]]
    ELSE IF idx < 0 /\ 0 - idx <= Len(files)
         THEN [ok |-> TRUE, val |-> files[Len(files) + idx + 1]]
         ELSE [ok |-> FALSE, val |-> <<>>]

MsgIndex == "list index out of range"

\* what an edge out of read_output_node delivers: a list of files
Delivered(e, out) ==
    IF e.idx = <<>> THEN [ok |-> TRUE, val |-> out[e.port]]
    ELSE LET r == _getter(out[e.port], e.idx[1])
         IN  [ok |-> r.ok, val |-> <<r.val>>]

EdgesInto(E, n) == { e \in E : e.to = n }

\* the inputs the output node gathers; ok is false when a _getter raised
Gathered(E, out) ==
    LET inc == EdgesInto(E, "output_node")
    IN  [ok |-> \A e \in inc : Delivered(e, out).ok,
         val |-> [port \in { e.inport : e \in inc } |->
                    Delivered(CHOOSE e \in inc : e.inport = port, out).val]]

\* the directory DataSink gives to an input port
PortTokens(port) ==
    CASE port = "spm_results_analysis_1" -> <<"spm_results_analysis_", "1">>
      [] port = "spm_results_analysis_2" -> <<"spm_results_analysis_", "2">>
      [] OTHER -> <<port>>

\* DataSink: every file received on a port is written to
\* <base_directory>/<port>/<file name>, rewritten by the substitutions
Written(base, rules, port, file) ==
    LET produced == Join(base \o <<"/">> \o PortTokens(port), file)
    IN  [port |-> port, produced |-> produced,
         final |-> Substitute(rules, produced)]

\* line 239 (tsv_file) and the ports fed by the output node
SinkFiles(E, f) ==
    { [port |-> "tsv_file", file |-> TsvFile] } \cup
    UNION { { [port |-> e.inport, file |-> f[e.port][i]] :
                i \in 1..Len(f[e.port]) } :
            e \in { x \in EdgesInto(E, "datasink") : x.port \in DOMAIN f } }

----------------------------------------------------------------------------
(* The ports each node declares, and the inputs set directly *)

\* get_input_fields, lines 61-69
InputFields == {"input_files"}
\* get_output_fields, lines 71-88
OutputFields ==
    { "spmT_0001", "spmT_0002", "spm_figures", "variance_of_error",
      "resels_per_voxels", "mask", "regression_coeff", "contrast" }

RunNodes ==
    { "run_spm_model_creation", "run_spm_model_estimation",
      "run_spm_model_contrast", "run_spm_model_result_no_correction" }

\* input_names of each node; an IdentityInterface takes its fields.
\* The sink (DataSink) takes any port, so it declares none here.
InputPorts(n) ==
    CASE n = "read_parameters_node" -> InputFields
      [] n = "input_node" -> InputFields
      [] n = "unzip_node" -> {"in_file"}
      [] n = "get_groups" -> {"tsv", "contrast"}
      [] n \in RunNodes -> {"m_file"}
      [] n = "model_creation" ->
           { "tsv", "contrast", "idx_group1", "idx_group2", "file_list",
             "template_file" }
      [] n = "model_estimation" -> {"mat_file", "template_file"}
      [] n = "model_contrast" ->
           {"mat_file", "template_file", "covariates", "class_names"}
      [] n = "model_result_no_correction" ->
           {"mat_file", "template_file", "method", "threshold"}
      [] n = "read_output_node" ->
           { "spm_mat", "class_names", "covariates", "group_label", "fwhm",
             "measure" }
      [] n = "output_node" -> OutputFields
      [] OTHER -> {}

\* output_names of each node; an IdentityInterface gives its fields
OutputPorts(n) ==
    CASE n = "read_parameters_node" -> InputFields
      [] n = "input_node" -> InputFields
      [] n = "unzip_node" -> {"output_files"}
      [] n = "get_groups" -> {"idx_group1", "idx_group2", "class_names"}
      [] n \in RunNodes -> {"spm_mat"}
      [] n = "model_creation" -> {"script_file", "covariates"}
      [] n = "model_estimation" -> {"script_file"}
      [] n = "model_contrast" -> {"script_file"}
      [] n = "model_result_no_correction" -> {"script_file"}
      [] n = "read_output_node" ->
           { "spm_T_maps", "spm_figures", "other_spm_files",
             "regression_coeff", "contrasts" }
      [] n = "output_node" -> OutputFields
      [] OTHER -> {}

Literal(n, port) == [node |-> n, port |-> port]

\* _build_input_node, line 161
InputLiterals == { Literal("read_parameters_node", "input_files") }

\* _build_core_nodes, lines 307-308, 358-362, 373-375, 386-388, 399-406,
\* 432-434
CoreLiterals ==
    { Literal("get_groups", "contrast"), Literal("get_groups", "tsv"),
      Literal("model_creation", "tsv"), Literal("model_creation", "contrast"),
      Literal("model_creation", "template_file"),
      Literal("model_estimation", "template_file"),
      Literal("model_contrast", "template_file"),
      Literal("model_result_no_correction", "template_file"),
      Literal("model_result_no_correction", "method"),
      Literal("model_result_no_correction", "threshold"),
      Literal("read_output_node", "group_label"),
      Literal("read_output_node", "fwhm"),
      Literal("read_output_node", "measure") }

\* _build_output_node, lines 188-192 and 239
OutputLiterals ==
    { Literal("datasink", "base_directory"),
      Literal("datasink", "parameterization"),
      Literal("datasink", "tsv_file") }

----------------------------------------------------------------------------
(* The life of a pipeline object: construction, build(), then the run of   *)
(* the built workflow.                                                     *)

Init ==
    /\ parameters \in RawBags
    /\ pc = "new"
    /\ err = NoError
    /\ filter_calls = 0
    /\ information_dict = NoInfo
    /\ input_files = <<>>
    /\ edges = {}
    /\ literals = {}
    /\ regexp_substitutions = <<>>
    /\ status = [n \in Nodes |-> "idle"]
    /\ outputs = NoOutputs
    /\ fields = <<>>
    /\ sunk = {}

\* _check_pipeline_parameters (lines 14-55)
CheckPipelineParameters ==
    /\ pc = "new"
    /\ UNCHANGED literals
    /\ err = NoError
    /\ LET r == CheckParameters(parameters)
       IN  /\ parameters' = r.parameters
           /\ err' = r.err
           /\ pc' = IF r.err = NoError THEN "checked" ELSE "new"
    /\ UNCHANGED <<filter_calls, information_dict, input_files, edges,
                   regexp_substitutions, status, outputs, fields, sunk>>

\* _build_input_node (lines 90-172)
BuildInputNode ==
    /\ pc = "checked"
    /\ err = NoError
    /\ LET r == SelectInput(parameters)
       IN  /\ parameters' = r.parameters
           /\ err' = r.err
           /\ IF r.err = NoError
              THEN /\ information_dict' = r.info
                   /\ filter_calls' = filter_calls + 1
                   /\ input_files' = MatchedFiles
                   /\ edges' = edges \cup InputEdges
                   /\ literals' = literals \cup InputLiterals
                   /\ pc' = "input"
              ELSE /\ pc' = "checked"
                   /\ UNCHANGED <<information_dict, filter_calls, input_files,
                                  edges, literals>>
    /\ UNCHANGED <<regexp_substitutions, status, outputs, fields, sunk>>

\* _build_core_nodes (lines 266-466)
BuildCoreNodes ==
    /\ pc = "input"
    /\ edges' = edges \cup CoreEdges
    /\ literals' = literals \cup CoreLiterals
    /\ pc' = "core"
    /\ UNCHANGED <<parameters, err, filter_calls, information_dict,
                   input_files, regexp_substitutions, status, outputs, fields,
                   sunk>>

\* _build_output_node (lines 174-264)
BuildOutputNode ==
    /\ pc = "core"
    /\ regexp_substitutions' = RegexpSubstitutions(parameters)
    /\ edges' = edges \cup OutputEdges
    /\ literals' = literals \cup (IF Truthy(parameters["full_width_at_half_maximum"])
                                  THEN OutputLiterals \cup
                                       {Literal("datasink", "regexp_substitutions")}
                                  ELSE OutputLiterals)
    /\ pc' = "built"
    /\ UNCHANGED <<parameters, err, filter_calls, information_dict,
                   input_files, status, outputs, fields, sunk>>

\* The engine starts a node once every node it takes an input from is done.
Ready(n) ==
    /\ pc = "built"
    /\ status[n] = "idle"
    /\ \A m \in Producers(edges, n) : status[m] = "done"

Start(n) ==
    /\ Ready(n)
    /\ UNCHANGED literals
    /\ status' = [status EXCEPT ![n] = "running"]
    /\ UNCHANGED <<parameters, pc, err, filter_calls, information_dict,
                   input_files, edges, regexp_substitutions, outputs, fields,
                   sunk>>

\* A node whose function or script ends in an error
Fail(n) ==
    /\ status[n] = "running"
    /\ UNCHANGED literals
    /\ status' = [status EXCEPT ![n] = "failed"]
    /\ err' = Raise("NodeExecutionError", "node crashed", <<PyStr(n)>>)
    /\ UNCHANGED <<parameters, pc, filter_calls, information_dict,
                   input_files, edges, regexp_substitutions, outputs, fields,
                   sunk>>

\* Any node but the three below ends well
Finish(n) ==
    /\ n \notin {"read_output_node", "output_node", "datasink"}
    /\ UNCHANGED literals
    /\ status[n] = "running"
    /\ status' = [status EXCEPT ![n] = "done"]
    /\ UNCHANGED <<parameters, pc, err, filter_calls, information_dict,
                   input_files, edges, regexp_substitutions, outputs, fields,
                   sunk>>

\* read_output_node ends well: copy_and_rename_spm_output_files returns
Collect ==
    /\ status["read_output_node"] = "running"
    /\ UNCHANGED literals
    /\ \E nMaps \in 0..MaxMaps, nOther \in 0..MaxOther :
          outputs' = CollectedOutputs(nMaps, nOther)
    /\ status' = [status EXCEPT !["read_output_node"] = "done"]
    /\ UNCHANGED <<parameters, pc, err, filter_calls, information_dict,
                   input_files, edges, regexp_substitutions, fields, sunk>>

\* the output node gathers its inputs through the connections, _getter
\* included, and passes them on
Splice ==
    /\ status["output_node"] = "running"
    /\ UNCHANGED literals
    /\ LET r == Gathered(edges, outputs)
       IN  IF r.ok
           THEN /\ fields' = r.val
                /\ status' = [status EXCEPT !["output_node"] = "done"]
                /\ UNCHANGED err
           ELSE /\ status' = [status EXCEPT !["output_node"] = "failed"]
                /\ err' = Raise("IndexError", MsgIndex, <<>>)
                /\ UNCHANGED fields
    /\ UNCHANGED <<parameters, pc, filter_calls, information_dict,
                   input_files, edges, regexp_substitutions, outputs, sunk>>

\* the sink writes what it received
Sink ==
    /\ status["datasink"] = "running"
    /\ UNCHANGED literals
    /\ sunk' = { Written(BaseDir(parameters), regexp_substitutions,
                         x.port, x.file) : x \in SinkFiles(edges, fields) }
    /\ status' = [status EXCEPT !["datasink"] = "done"]
    /\ UNCHANGED <<parameters, pc, err, filter_calls, information_dict,
                   input_files, edges, regexp_substitutions, outputs, fields>>

Next ==
    \/ CheckPipelineParameters
    \/ BuildInputNode
    \/ BuildCoreNodes
    \/ BuildOutputNode
    \/ \E n \in Nodes : Start(n)
    \/ \E n \in Nodes : Finish(n)
    \/ \E n \in Nodes : Fail(n)
    \/ Collect
    \/ Splice
    \/ Sink

Spec == Init /\ [][Next]_vars

----------------------------------------------------------------------------
(* Properties *)

Source == parameters["orig_input_data_volume"]
Fwhm == parameters["full_width_at_half_maximum"]
SinkDone == status["datasink"] = "done"
RPVProduced ==
    Join(Join(BaseDir(parameters), <<"resels_per_voxels">>),
         <<"resels_per_voxel", ".", "nii">>)
RPVFinal == Join(BaseDir(parameters), <<GroupId, "_RPV", ".", "nii">>)
MaskProduced ==
    Join(Join(BaseDir(parameters), <<"mask">>),
         <<"included_voxel_mask", ".", "nii">>)
MaskFinal == Join(BaseDir(parameters), <<GroupId, "_mask", ".", "nii">>)
TsvProduced == Join(Join(BaseDir(parameters), <<"tsv_file">>), TsvFile)
TsvFinal ==
    Join(Join(BaseDir(parameters), <<"..">>),
         <<GroupId, "_participants", ".", "tsv">>)
RewrittenPorts ==
    { "spm_results_analysis_1", "spm_results_analysis_2", "contrasts",
      "resels_per_voxels", "variance_of_error", "figures", "tsv_file",
      "regression_coeff" }

\* C1: with the smoothing width set, the sink's rules take
\* <base_dir>/resels_per_voxels/resels_per_voxel.nii to
\* <base_dir>/<group_id>_RPV.nii, and applying the rules again to the
\* rewritten path of any t-map, contrast, RPV, variance-of-error, figure,
\* participants or regression-coefficient file changes nothing.
C1_RPVRenamedAndIdempotent ==
    (SinkDone /\ Truthy(Fwhm)) =>
       /\ Substitute(regexp_substitutions, RPVProduced) = RPVFinal
       /\ \A w \in sunk :
            /\ w.produced = RPVProduced => w.final = RPVFinal
            /\ w.port \in RewrittenPorts =>
                 Substitute(regexp_substitutions, w.final) = w.final
C1_Witness ==
    /\ SinkDone
    /\ Truthy(Fwhm)
    /\ \E w \in sunk : w.produced = RPVProduced /\ w.final = RPVFinal
    /\ \A port \in RewrittenPorts :
         \E w \in sunk : w.port = port /\ w.final # w.produced

\* C2: the file the sink receives on its port mask, produced at
\* <base_dir>/mask/included_voxel_mask.nii, ends at
\* <base_dir>/<group_id>_mask.nii.
C2_MaskRelocated ==
    (SinkDone /\ Truthy(Fwhm)) =>
       \A w \in sunk :
          w.port = "mask" =>
             (w.produced = MaskProduced /\ w.final = MaskFinal)

\* C3: with the smoothing width null, the rules handed to the sink have no
\* destination with an fwhm- segment, and still rename resels_per_voxel.nii
\* to <group_id>_RPV.nii and move the participants table to the parent
\* directory as <group_id>_participants.tsv.
C3_NullWidthKeepsOtherRules ==
    (pc = "built" /\ ~Truthy(Fwhm)) =>
       /\ \A i \in 1..Len(regexp_substitutions) :
            \A k \in 1..Len(regexp_substitutions[i].repl) :
               regexp_substitutions[i].repl[k] # "_fwhm-"
       /\ Substitute(regexp_substitutions, RPVProduced) = RPVFinal
       /\ Substitute(regexp_substitutions, TsvProduced) = TsvFinal

\* C4: for pet-volume, when acq_label or suvr_reference_region is missing
\* after resolution, input selection fails with the ValueError "Missing
\* value(s) in parameters from pet-volume pipeline" before
\* clinica_file_filter is called, and with no other error.
C4_IncompleteParametersError ==
    (/\ pc = "checked"
     /\ err # NoError
     /\ Source = PyStr("pet-volume")
     /\ ~(Truthy(parameters["acq_label"])
          /\ Truthy(parameters["suvr_reference_region"])))
    => (/\ err.type = "ValueError"
        /\ err.msg = MsgMissingValues
        /\ filter_calls = 0)

\* C5: for custom-pipeline, an empty or missing custom_file makes input
\* selection fail with the ClinicaException "Custom pipeline was selected
\* but no 'custom_file' was specified." and leaves
\* full_width_at_half_maximum as it was; a non-empty custom_file leaves
\* full_width_at_half_maximum None, whatever it was, and the descriptor
\* holds the pattern itself.
C5_CustomPipeline ==
    [][ (/\ pc = "checked"
         /\ err = NoError
         /\ Source = PyStr("custom-pipeline"))
        => IF ~Truthy(parameters["custom_file"])
           THEN /\ err' = Raise("ClinicaException", MsgNoCustomFile, <<>>)
                /\ Fwhm' = Fwhm
                /\ Fwhm' # None
                /\ pc' = "checked"
                /\ filter_calls' = 0
           ELSE /\ err' = NoError
                /\ Fwhm' = None
                /\ pc' = "input"
                /\ information_dict' =
                      [kind |-> "dict",
                       pattern |-> parameters["custom_file"],
                       description |-> PyStr("custom file provided by user")]
      ]_vars
C5_Witness ==
    /\ pc = "input"
    /\ Source = PyStr("custom-pipeline")
    /\ Fwhm = None
    /\ information_dict.kind = "dict"
    /\ information_dict.pattern = PyStr("*_pet.nii.gz")

SplicedPorts ==
    << <<"spmT_0001", "spm_T_maps", 0>>, <<"spmT_0002", "spm_T_maps", 1>>,
       <<"variance_of_error", "other_spm_files", 0>>,
       <<"resels_per_voxels", "other_spm_files", 1>>,
       <<"mask", "other_spm_files", 2>> >>
CollectionDone == status["read_output_node"] = "done"
ListsLongEnough ==
    Len(outputs.spm_T_maps) >= 2 /\ Len(outputs.other_spm_files) >= 3

\* C6: the output node receives spm_T_maps[0] and [1] as spmT_0001 and
\* spmT_0002, and other_spm_files[0], [1], [2] as variance_of_error,
\* resels_per_voxels and mask; _getter at an index at or beyond the length
\* of the list raises IndexError, so that with a list too short the output
\* node never completes and nothing is passed on.
C6_SplicingByIndex ==
    /\ status["output_node"] = "done" =>
         /\ ListsLongEnough
         /\ \A k \in 1..Len(SplicedPorts) :
              fields[SplicedPorts[k][1]] =
                 << outputs[SplicedPorts[k][2]][SplicedPorts[k][3] + 1] >>
    /\ CollectionDone =>
         \A idx \in 0..(MaxOther + 1) :
            /\ _getter(outputs.spm_T_maps, idx).ok
                  <=> idx < Len(outputs.spm_T_maps)
            /\ _getter(outputs.other_spm_files, idx).ok
                  <=> idx < Len(outputs.other_spm_files)
    /\ (CollectionDone /\ ~ListsLongEnough) =>
         /\ status["output_node"] \in {"idle", "running", "failed"}
         /\ fields = <<>>
         /\ status["datasink"] = "idle"
C6_Witness ==
    /\ status["output_node"] = "failed"
    /\ err = Raise("IndexError", MsgIndex, <<>>)
    /\ Len(outputs.spm_T_maps) = 2
    /\ Len(outputs.other_spm_files) = 2

NothingToRun ==
    \A n \in Nodes : status[n] # "running" /\ ~Ready(n)

\* C7: every stage built by _build_core_nodes is an ancestor of the sink,
\* and the sink is started only in runs where every stage is done: it is
\* never started in a run in which a stage failed.
C7_SinkOnlyAfterAllStages ==
    /\ pc = "built" =>
         \A n \in CoreStages : Before(edges, n, "datasink")
    /\ status["datasink"] # "idle" =>
         \A n \in CoreStages : status[n] = "done"
C7_Witness ==
    /\ pc = "built"
    /\ status["run_spm_model_result_no_correction"] = "failed"
    /\ NothingToRun
    /\ status["datasink"] = "idle"

\* C8: a bag without orig_input_data_volume or without contrast makes
\* _check_pipeline_parameters raise KeyError with the message naming the
\* missing key, the bag left as it was; without both, the message names
\* orig_input_data_volume.
C8_MissingCompulsoryKey ==
    [][ (/\ pc = "new"
         /\ err = NoError
         /\ {"orig_input_data_volume", "contrast"} \ DOMAIN parameters # {})
        => /\ parameters' = parameters
           /\ pc' = "new"
           /\ err'.type = "KeyError"
           /\ err'.msg = IF "orig_input_data_volume" \notin DOMAIN parameters
                         THEN MsgMissingInput ELSE MsgMissingContrast
      ]_vars
C8_Witness ==
    /\ pc = "new"
    /\ err = Raise("KeyError", MsgMissingInput, <<>>)
    /\ "contrast" \notin DOMAIN parameters
    /\ "orig_input_data_volume" \notin DOMAIN parameters
    /\ "group_label_dartel" \notin DOMAIN parameters

\* the bag has both compulsory keys and no label outside its enumeration
Resolvable(p) ==
    /\ {"orig_input_data_volume", "contrast"} \subseteq DOMAIN p
    /\ "acq_label" \in DOMAIN p => Tracer(p["acq_label"]).ok
    /\ "suvr_reference_region" \in DOMAIN p =>
          SUVRReferenceRegion(p["suvr_reference_region"]).ok
GivenThreshold(p) ==
    IF "cluster_threshold" \in DOMAIN p THEN p["cluster_threshold"].i
    ELSE DefaultClusterThreshold

\* C9: resolution of a bag whose cluster_threshold is below 0 or above 1
\* raises ClinicaException carrying that value; with a value from 0 to 1,
\* both included, or with no value (the default 0.001), it succeeds.
C9_ClusterThresholdDomain ==
    [][ (pc = "new" /\ err = NoError /\ Resolvable(parameters))
        => LET t == GivenThreshold(parameters)
           IN  IF t < 0 \/ t > Scale
               THEN /\ pc' = "new"
                    /\ err' = Raise("ClinicaException", MsgThreshold,
                                    <<PyInt(t)>>)
               ELSE /\ pc' = "checked"
                    /\ err' = NoError
                    /\ parameters'["cluster_threshold"] = PyInt(t)
      ]_vars
C9_Witness ==
    /\ pc = "checked"
    /\ err = NoError
    /\ parameters["cluster_threshold"] = PyInt(Scale)

Chain ==
    << "model_creation", "run_spm_model_creation", "model_estimation",
       "run_spm_model_estimation", "model_contrast", "run_spm_model_contrast",
       "model_result_no_correction", "run_spm_model_result_no_correction",
       "read_output_node" >>
Unordered(E, n, m) == ~Before(E, n, m) /\ ~Before(E, m, n)

\* C10: the connections of _build_core_nodes are acyclic and order its
\* stages as unzip_node and get_groups, both before model_creation, then
\* model_creation, run_spm_model_creation, model_estimation,
\* run_spm_model_estimation, model_contrast, run_spm_model_contrast,
\* model_result_no_correction, run_spm_model_result_no_correction,
\* read_output_node; of these stages only unzip_node and get_groups are
\* unordered, and no run starts a stage before the ones ahead of it are done.
C10_CoreOrder ==
    /\ pc = "core" =>
         /\ Acyclic(edges)
         /\ \A i \in 1..(Len(Chain) - 1) : Before(edges, Chain[i], Chain[i + 1])
         /\ Before(edges, "unzip_node", "model_creation")
         /\ Before(edges, "get_groups", "model_creation")
         /\ \A n, m \in CoreStages :
              (n # m /\ Unordered(edges, n, m))
                 <=> {n, m} = {"unzip_node", "get_groups"}
    /\ \A i \in 1..(Len(Chain) - 1) :
         status[Chain[i + 1]] # "idle" => status[Chain[i]] = "done"
    /\ status["model_creation"] # "idle" =>
         (status["unzip_node"] = "done" /\ status["get_groups"] = "done")
C10_Witness ==
    /\ status["unzip_node"] = "running"
    /\ status["get_groups"] = "running"
    /\ status["model_creation"] = "idle"

\* the edges and the direct settings that feed input `port` of node n
Feeding(n, port) ==
    Cardinality({ e \in edges : e.to = n /\ e.inport = port })
    + (IF Literal(n, port) \in literals THEN 1 ELSE 0)

\* C11: in the built graph every edge leaves a declared output port of its
\* producer and enters a declared input port of its consumer (the sink
\* takes any port), and every declared input port of every node, the eight
\* fields of get_output_fields on the output node included, is fed by
\* exactly one edge or exactly one directly set value.
C11_PortSaturation ==
    pc = "built" =>
       /\ \A e \in edges :
            /\ e.port \in OutputPorts(e.from)
            /\ e.to # "datasink" => e.inport \in InputPorts(e.to)
       /\ \A n \in Nodes :
            \A port \in InputPorts(n) : Feeding(n, port) = 1

====
